---- MODULE Spec2Model ----
(***************************************************************************)
(* Model of DeepHash.ipynb: the pairwise hashing loss deephashloss (cell 3) *)
(* and the median-hash / Hamming-distance evaluation (cell 4).             *)
(*                                                                         *)
(* Losses and medians are held exactly, as fractions [num, den] with       *)
(* den > 0 (they are small integers and halves, which float arithmetic     *)
(* represents exactly); NaN is the fraction with den = 0.  The Hamming     *)
(* mean and its product with the hash length are float64 values that need  *)
(* not be exact, and are held with their rounding.  Tensors are held as    *)
(* matrices (a sequence of rows) together with their rank, so that         *)
(* TensorFlow's broadcasting is computed from the shapes as the library    *)
(* computes it.                                                            *)
(***************************************************************************)
EXTENDS Integers, Sequences, FiniteSets

VARIABLES
    cell,           \* which notebook step has run last
    y_true,         \* labels handed to deephashloss: [rank, m]
    y_pred,         \* predictions handed to deephashloss: N rows of B numbers
    loss,           \* what deephashloss returned: [status, value]
    y_test,         \* labels of the evaluation set
    y_test_fit,     \* model.predict(X_test), then its binarization
    median_hash,    \* list of the ten per-label medians
    hash_distance,  \* dict (i,j) -> distance, with its insertion order
    report          \* the two printed lines

vars == <<cell, y_true, y_pred, loss, y_test, y_test_fit, median_hash,
          hash_distance, report>>

(***************************************************************************)
(* Bounds of the model.                                                    *)
(***************************************************************************)
MaxN == 3          \* largest batch handed to deephashloss
PredLen == 1       \* largest length of a prediction vector in a batch
MaxGroup == 3      \* largest number of samples of label 0
MaxOther == 1      \* largest number of samples of a varied label other than 0

PredVals == {0, 1, 6}     \* values a prediction entry takes
LabelVals == {0, 1}       \* labels that occur in a batch

(***************************************************************************)
(* Exact arithmetic.                                                       *)
(***************************************************************************)
Rat(n, d) == [num |-> n, den |-> d]

NaN == Rat(0, 0)

IsNaN(x) == x.den = 0

\* x != y as IEEE compares: NaN differs from everything, itself included.
RatNe(x, y) == IsNaN(x) \/ IsNaN(y) \/ x.num * y.den # y.num * x.den

RatDivInt(n, k) == IF n % k = 0 THEN Rat(n \div k, 1) ELSE Rat(n, k)

(***************************************************************************)
(* float64 arithmetic of the Hamming mean and of its product with the      *)
(* length.  A float64 is named by a fraction num/den and a count of steps: *)
(* it is the representable number that lies steps places above (below,     *)
(* when steps < 0) the representable number nearest to num/den.            *)
(***************************************************************************)
MantBits == 53     \* bits of a float64 significand

Float(n, d, j) == [num |-> n, den |-> d, steps |-> j]

\* x < y for two such values whose fractions have small denominators.
FloatLt(x, y) == \/ x.num * y.den < y.num * x.den
                 \/ (x.num * y.den = y.num * x.den /\ x.steps < y.steps)

\* 2^e modulo n, by repeated squaring.
RECURSIVE Pow2Mod(_, _)
Pow2Mod(e, n) ==
    IF e = 0 THEN 1 % n
    ELSE LET h == Pow2Mod(e \div 2, n)
         IN  (h * h * (IF e % 2 = 1 THEN 2 ELSE 1)) % n

\* The number of binary digits of n.
BitLen(n) == CHOOSE L \in 0..30 : 2 ^ L > n /\ (L = 0 \/ 2 ^ (L - 1) <= n)

\* For 0 < k < B, the t with 2^-t <= k/B < 2^(1-t): the place of the leading
\* binary digit of the quotient.
LeadExp(k, B) ==
    LET a == BitLen(B) - BitLen(k)
    IN  IF k * (2 ^ a) >= B THEN a ELSE a + 1

\* The rounding of the division k / B, for 0 < k < B.  With
\* s = LeadExp + MantBits - 1 the float64 quotient q, rounded to nearest
\* with ties to even, is (k * 2^s + d) / (B * 2^s); the result is d.
MeanErr(k, B) ==
    LET s == LeadExp(k, B) + MantBits - 1
        r == (k * Pow2Mod(s, B)) % B
        last == ((2 * ((k * Pow2Mod(s - 1, B)) % B)) \div B) % 2
    IN  IF 2 * r < B THEN 0 - r
        ELSE IF 2 * r > B THEN B - r
        ELSE IF last = 0 THEN 0 - r
        ELSE B - r

\* The rounding of the product q * B, for 0 < k < B.  The exact product is
\* k + d / 2^s; the float64 spacing at k is 2^(BitLen(k) - MantBits), and
\* half of that below k when k is a power of two.  The result is how many
\* representable numbers the float64 product lies above or below k.
ProductSteps(k, B) ==
    LET d == MeanErr(k, B)
        G == 2 ^ (LeadExp(k, B) + BitLen(k) - 1)
    IN  IF d >= 0 THEN (IF 2 * d > G THEN 1 ELSE 0)
        ELSE IF k # 2 ^ (BitLen(k) - 1)
             THEN (IF 2 * (0 - d) > G THEN 0 - 1 ELSE 0)
        ELSE IF 4 * (0 - d) <= G THEN 0
        ELSE IF 4 * (0 - d) < 3 * G THEN 0 - 1
        ELSE 0 - 2

\* q * len, for q the float64 mean of len booleans (q.den = len): exact for
\* a mean of 0 or 1, and else k moved by the rounding of the two operations.
TimesLen(q) ==
    IF q.den = 0 THEN q
    ELSE IF q.num = 0 \/ q.num = q.den THEN Float(q.num, 1, 0)
    ELSE Float(q.num, 1, ProductSteps(q.num, q.den))

RECURSIVE SumSeq(_)
SumSeq(s) == IF s = <<>> THEN 0 ELSE Head(s) + SumSeq(Tail(s))

MaxOf(a, b) == IF a >= b THEN a ELSE b

(***************************************************************************)
(* Tensors of rank 1 and 2.  A rank-1 tensor of length n is held as the    *)
(* single row of a 1 x n matrix, which is also how broadcasting aligns it  *)
(* against a rank-2 tensor.                                                *)
(***************************************************************************)
Tensor(rank, mat) == [rank |-> rank, m |-> mat]

Rows(mat) == Len(mat)
Cols(mat) == Len(mat[1])

\* Variant: the transpose is left out.
TransposeOmitted(t) == t

\* tf.transpose with the default permutation: reverses the axes, so a
\* rank-1 tensor is returned as it is.
Transpose(t) ==
    IF t.rank = 1 THEN t
    ELSE Tensor(2, [j \in 1..Cols(t.m) |-> [i \in 1..Rows(t.m) |-> t.m[i][j]]])

\* Two dimensions broadcast when they are equal or one of them is 1.
DimOk(a, b) == a = b \/ a = 1 \/ b = 1

BroadcastOk(s, t) == /\ DimOk(Rows(s.m), Rows(t.m))
                     /\ DimOk(Cols(s.m), Cols(t.m))

BIdx(i, n) == IF n = 1 THEN 1 ELSE i

EqCast(a, b) == IF a = b THEN 1 ELSE 0
Mul(a, b) == a * b
Add(a, b) == a + b

\* The elementwise operations the loss uses.
Elementwise(op, a, b) ==
    CASE op = "equal" -> EqCast(a, b)
      [] op = "multiply" -> Mul(a, b)
      [] op = "add" -> Add(a, b)

\* An elementwise binary operation under broadcasting.
Broadcast(op, s, t) ==
    LET rs == Rows(s.m)
        cs == Cols(s.m)
        rt == Rows(t.m)
        ct == Cols(t.m)
    IN  Tensor(MaxOf(s.rank, t.rank),
               [i \in 1..MaxOf(rs, rt) |-> [j \in 1..MaxOf(cs, ct) |->
                   Elementwise(op, s.m[BIdx(i, rs)][BIdx(j, cs)],
                                   t.m[BIdx(i, rt)][BIdx(j, ct)])]])

\* tf.reduce_sum(t, axis=1) of a rank-2 tensor: one sum per row.
ReduceSumAxis1(t) == [i \in 1..Rows(t.m) |-> SumSeq(t.m[i])]

(***************************************************************************)
(* deephashloss.                                                           *)
(***************************************************************************)
m == 34

\* Variant: a sample is not counted as similar to itself.
SimilarityOffDiagonal(yt) ==
    LET S == Broadcast("equal", yt, Transpose(yt))
    IN  Tensor(S.rank, [i \in 1..Rows(S.m) |-> [j \in 1..Cols(S.m) |->
            IF i = j THEN 0 ELSE S.m[i][j]]])

\* tf.cast(tf.equal(y_true, tf.transpose(y_true)), y_pred.dtype)
Similarity(yt) == Broadcast("equal", yt, Transpose(yt))

\* tf.reduce_sum((expand_dims(y_pred,1) - expand_dims(y_pred,0))**2, 2)
PairwiseD(yp) ==
    Tensor(2, [i \in 1..Len(yp) |-> [j \in 1..Len(yp) |->
        SumSeq([k \in 1..Len(yp[i]) |->
                   (yp[i][k] - yp[j][k]) * (yp[i][k] - yp[j][k])])]])

\* Variant: the margin term is not clipped at zero.
HingeUnclipped(D) == Tensor(2, [i \in 1..Rows(D.m) |-> [j \in 1..Cols(D.m) |->
                         m - D.m[i][j]]])

\* tf.maximum(m - D, 0)
Hinge(D) == Tensor(2, [i \in 1..Rows(D.m) |-> [j \in 1..Cols(D.m) |->
                MaxOf(m - D.m[i][j], 0)]])

\* 1 - y_true
OneMinus(S) == Tensor(S.rank, [i \in 1..Rows(S.m) |-> [j \in 1..Cols(S.m) |->
                   1 - S.m[i][j]]])

\* hashloss * 0.5
TimesHalf(v) == [i \in 1..Len(v) |-> Rat(v[i], 2)]

\* tf.math.multiply(y_true, D) + tf.math.multiply(1-y_true, tf.maximum(m-D,0))
Contribution(S, D) ==
    Broadcast("add", Broadcast("multiply", S, D),
                     Broadcast("multiply", OneMinus(S), Hinge(D)))

\* The call either raises TensorFlow's error for shapes that do not
\* broadcast, or returns the vector of per-sample losses.
deephashloss(yt, yp) ==
    LET S == Similarity(yt)
        D == PairwiseD(yp)
    IN  IF ~BroadcastOk(S, D)
        THEN [status |-> "InvalidArgumentError", value |-> <<>>]
        ELSE LET hashloss == ReduceSumAxis1(Contribution(S, D))
             IN  [status |-> "ok", value |-> TimesHalf(hashloss)]

(***************************************************************************)
(* Evaluation: median hash per label and pairwise Hamming distances.       *)
(***************************************************************************)
NumLabels == 10

HashLen == 17      \* Dense(17): length of the hash the network puts out

Labels == 0..(NumLabels - 1)

\* np.where(y_test_fit > 0, 1, 0)
Binarize(raw) == [s \in 1..Len(raw) |-> [k \in 1..Len(raw[s]) |->
                     IF raw[s][k] > 0 THEN 1 ELSE 0]]

\* y_test_fit[y_test == n]: the rows whose label is n, in their order.
MaskRows(fit, labels, n) ==
    LET idx == {s \in 1..Len(fit) : labels[s] = n}
    IN  [r \in 1..Cardinality(idx) |->
            fit[CHOOSE s \in idx : Cardinality({t \in idx : t <= s}) = r]]

RECURSIVE Insert(_, _)
Insert(x, s) == IF s = <<>> THEN <<x>>
                ELSE IF x <= Head(s) THEN <<x>> \o s
                ELSE <<Head(s)>> \o Insert(x, Tail(s))

RECURSIVE Sorted(_)
Sorted(s) == IF s = <<>> THEN <<>> ELSE Insert(Head(s), Sorted(Tail(s)))

\* Variant: an even split is rounded half up.
MedianRoundHalfUp(col) ==
    LET n == Len(col)
        s == Sorted(col)
    IN  IF n = 0 THEN NaN
        ELSE IF n % 2 = 1 THEN Rat(s[(n + 1) \div 2], 1)
        ELSE Rat((s[n \div 2] + s[n \div 2 + 1] + 1) \div 2, 1)

\* np.median of one column: NaN when empty, the middle value of the sorted
\* column when its size is odd, the mean of the two middle values when even.
Median(col) ==
    LET n == Len(col)
        s == Sorted(col)
    IN  IF n = 0 THEN NaN
        ELSE IF n % 2 = 1 THEN Rat(s[(n + 1) \div 2], 1)
        ELSE RatDivInt(s[n \div 2] + s[n \div 2 + 1], 2)

\* np.median(rows, axis=0) of an array of shape (len(rows), width).
MedianAxis0(rows, width) ==
    [k \in 1..width |-> Median([s \in 1..Len(rows) |-> rows[s][k]])]

\* scipy.spatial.distance.hamming: the float64 mean of u != v, the count of
\* differing positions divided by the length.
hamming(u, v) ==
    Float(Cardinality({k \in 1..Len(u) : RatNe(u[k], v[k])}), Len(u), 0)

\* Variant: the Hamming fraction is stored without scaling by the length.
DistanceUnscaled(med, i, j) == hamming(med[i + 1], med[j + 1])

\* hamming(median_hash[i], median_hash[j]) * len(median_hash[i])
Distance(med, i, j) == TimesLen(hamming(med[i + 1], med[j + 1]))

\* Variant: the inner loop starts at i, not at i+1.
InnerKeysFromI(i) == [q \in 1..(NumLabels - i) |-> <<i, i + q - 1>>]

\* for j in range(i+1,10): the keys (i,j) of one pass of the outer loop.
InnerKeys(i) == [q \in 1..(NumLabels - 1 - i) |-> <<i, i + q>>]

\* for i in range(10): the keys in the order the double loop writes them.
RECURSIVE LoopKeys(_)
LoopKeys(i) ==
    IF i >= NumLabels THEN <<>> ELSE InnerKeys(i) \o LoopKeys(i + 1)

\* The dict after the loop, as its items in insertion order.
FillTable(med) ==
    LET keys == LoopKeys(0)
    IN  [p \in 1..Len(keys) |->
            [key |-> keys[p], val |-> Distance(med, keys[p][1], keys[p][2])]]

\* Variant: the last of the tied keys is returned.
ArgMaxLast(items) ==
    items[CHOOSE p \in 1..Len(items) :
            /\ \A q \in 1..Len(items) : ~FloatLt(items[p].val, items[q].val)
            /\ \A q \in (p + 1)..Len(items) : FloatLt(items[q].val, items[p].val)]

\* max(d, key=d.get): the first item, in the dict's order, that no item
\* exceeds.
ArgMax(items) ==
    items[CHOOSE p \in 1..Len(items) :
            /\ \A q \in 1..Len(items) : ~FloatLt(items[p].val, items[q].val)
            /\ \A q \in 1..(p - 1) : FloatLt(items[q].val, items[p].val)]

\* min(d, key=d.get): the first item that exceeds no item.
ArgMin(items) ==
    items[CHOOSE p \in 1..Len(items) :
            /\ \A q \in 1..Len(items) : ~FloatLt(items[q].val, items[p].val)
            /\ \A q \in 1..(p - 1) : FloatLt(items[p].val, items[q].val)]

\* max(d.values())
MaxVal(items) ==
    CHOOSE v \in {items[p].val : p \in 1..Len(items)} :
        \A q \in 1..Len(items) : ~FloatLt(v, items[q].val)

\* min(d.values())
MinVal(items) ==
    CHOOSE v \in {items[p].val : p \in 1..Len(items)} :
        \A q \in 1..Len(items) : ~FloatLt(items[q].val, v)

\* The two print statements: the farthest pair and the largest value, then
\* the closest pair and the smallest value.
Report(items) ==
    [maxKey |-> ArgMax(items).key,
     maxVal |-> MaxVal(items),
     minKey |-> ArgMin(items).key,
     minVal |-> MinVal(items)]

(***************************************************************************)
(* Inputs.                                                                 *)
(***************************************************************************)
SeqsUpTo(S, n) == UNION {[1..k -> S] : k \in 0..n}

\* A column of labels (shape (M,1), as Keras hands them to the loss) or a
\* flat row of labels (shape (M,)).
LabelTensor(rank, labels) ==
    IF rank = 1 THEN Tensor(1, <<labels>>)
    ELSE Tensor(2, [i \in 1..Len(labels) |-> <<labels[i]>>])

LabelsOf(t) == IF t.rank = 1 THEN t.m[1] ELSE [i \in 1..Rows(t.m) |-> t.m[i][1]]

\* The hash with ones at its first j positions.
Prefix(j) == [k \in 1..HashLen |-> IF k <= j THEN 1 ELSE 0]

\* The hash with ones at its odd positions.
Alternating == [k \in 1..HashLen |-> k % 2]

\* The hashes the samples of a varied group are drawn from.
HashVecs == {Prefix(0), Prefix(HashLen \div 2), Prefix(HashLen), Alternating}

\* A network output whose binarization is the vector b.
RawOf(b, low) == [k \in 1..Len(b) |-> IF b[k] = 1 THEN 1 ELSE low]

\* An evaluation set: every label other than v has the samples of common,
\* label v has the samples of g; v's samples come last.
RECURSIVE FillSet(_, _, _)
FillSet(n, v, common) ==
    IF n >= NumLabels THEN <<>>
    ELSE (IF n = v THEN <<>>
          ELSE [s \in 1..Len(common) |-> [label |-> n, vec |-> common[s]]])
         \o FillSet(n + 1, v, common)

TestSet(v, common, g) ==
    FillSet(0, v, common) \o [s \in 1..Len(g) |-> [label |-> v, vec |-> g[s]]]

\* An evaluation set with one sample per label, label n having ones at its
\* first (n + shift) % period positions.  With period HashLen + 1 the sets
\* show every distance 0..HashLen; with period 4 they repeat hashes.
SpreadSet(shift, period) ==
    [s \in 1..NumLabels |->
        [label |-> s - 1, vec |-> Prefix((s - 1 + shift) % period)]]

SpreadPeriods == {4, HashLen + 1}

Unset == <<>>

InitLoss ==
    /\ cell = "fit"
    /\ \E n \in 1..MaxN, b \in 1..PredLen, k \in 1..MaxN, rank \in {1, 2} :
         /\ y_pred \in [1..n -> [1..b -> PredVals]]
         /\ \E labels \in [1..k -> LabelVals] : y_true = LabelTensor(rank, labels)
    /\ loss = Unset
    /\ y_test = Unset /\ y_test_fit = Unset /\ median_hash = Unset
    /\ hash_distance = Unset /\ report = Unset

\* The batch of end-to-end scenario 1, as a column and as a flat row.
InitScenario ==
    /\ cell = "fit"
    /\ y_pred = << <<0, 0>>, <<0, 0>>, <<5, 5>>, <<5, 5>> >>
    /\ \E rank \in {1, 2} : y_true = LabelTensor(rank, <<0, 0, 1, 1>>)
    /\ loss = Unset
    /\ y_test = Unset /\ y_test_fit = Unset /\ median_hash = Unset
    /\ hash_distance = Unset /\ report = Unset

\* The labels of an evaluation set and the network's output on it.
EvalInput(set, low) ==
    /\ set # <<>>
    /\ y_test = [s \in 1..Len(set) |-> set[s].label]
    /\ y_test_fit = [s \in 1..Len(set) |-> RawOf(set[s].vec, low)]

\* The evaluation sets of the model: the spread sets, and the sets in which
\* one label v varies against a common group of at most one sample.
InitEval ==
    /\ cell = "predict"
    /\ \E low \in {-1, 0} :
         \/ \E period \in SpreadPeriods : \E shift \in 0..(period - 1) :
               EvalInput(SpreadSet(shift, period), low)
         \/ \E v \in Labels, common \in SeqsUpTo(HashVecs, 1) :
               \E g \in SeqsUpTo(HashVecs, IF v = 0 THEN MaxGroup ELSE MaxOther) :
                  EvalInput(TestSet(v, common, g), low)
    /\ median_hash = Unset /\ hash_distance = Unset /\ report = Unset
    /\ y_true = Unset /\ y_pred = Unset /\ loss = Unset

Init == InitLoss \/ InitScenario \/ InitEval

(***************************************************************************)
(* Steps.                                                                  *)
(***************************************************************************)
\* Keras evaluates the loss on a batch.
LossCall ==
    /\ cell = "fit"
    /\ loss' = deephashloss(y_true, y_pred)
    /\ cell' = "loss"
    /\ UNCHANGED <<y_true, y_pred, y_test, y_test_fit, median_hash,
                   hash_distance, report>>

\* y_test_fit = np.where(y_test_fit>0,1,0)
BinarizeStep ==
    /\ cell = "predict"
    /\ y_test_fit' = Binarize(y_test_fit)
    /\ cell' = "binarized"
    /\ UNCHANGED <<y_true, y_pred, loss, y_test, median_hash, hash_distance,
                   report>>

\* median_hash = [np.median(y_test_fit[y_test==n],axis=0) for n in range(10)]
MedianStep ==
    /\ cell = "binarized"
    /\ median_hash' = [n \in 1..NumLabels |->
           MedianAxis0(MaskRows(y_test_fit, y_test, n - 1), Len(y_test_fit[1]))]
    /\ cell' = "medians"
    /\ UNCHANGED <<y_true, y_pred, loss, y_test, y_test_fit, hash_distance,
                   report>>

\* the double loop over i < j
DistanceStep ==
    /\ cell = "medians"
    /\ hash_distance' = FillTable(median_hash)
    /\ cell' = "distances"
    /\ UNCHANGED <<y_true, y_pred, loss, y_test, y_test_fit, median_hash,
                   report>>

\* the two print statements
ReportStep ==
    /\ cell = "distances"
    /\ report' = Report(hash_distance)
    /\ cell' = "reported"
    /\ UNCHANGED <<y_true, y_pred, loss, y_test, y_test_fit, median_hash,
                   hash_distance>>

NextEval == BinarizeStep \/ MedianStep \/ DistanceStep \/ ReportStep

Next == LossCall \/ NextEval

Spec == Init /\ [][Next]_vars

\* The loss alone, on every batch of the bounds and on scenario 1.
InitLossAll == InitLoss \/ InitScenario

SpecLoss == InitLossAll /\ [][LossCall]_vars

\* The evaluation cell alone.
SpecEval == InitEval /\ [][NextEval]_vars

(***************************************************************************)
(* Properties of deephashloss.                                             *)
(***************************************************************************)
LossDone == cell = "loss"

BatchLabels == LabelsOf(y_true)

NLabels == Len(BatchLabels)

NPred == Len(y_pred)

\* Squared Euclidean distance of predictions i and j.
SqDist(i, j) ==
    SumSeq([k \in 1..Len(y_pred[i]) |->
               (y_pred[i][k] - y_pred[j][k]) * (y_pred[i][k] - y_pred[j][k])])

\* What the pair (i,j) is to add to the loss of i.
Term(i, j) ==
    IF BatchLabels[i] = BatchLabels[j] THEN SqDist(i, j)
    ELSE IF 34 - SqDist(i, j) > 0 THEN 34 - SqDist(i, j) ELSE 0

\* The matrix the code sums over j.
Contributions == Contribution(Similarity(y_true), PairwiseD(y_pred)).m

\* The entry (i,j) of the similarity tensor S as it is broadcast against D.
BroadcastAt(S, i, j) == S.m[BIdx(i, Rows(S.m))][BIdx(j, Cols(S.m))]

IsScenario1 ==
    /\ y_pred = << <<0, 0>>, <<0, 0>>, <<5, 5>>, <<5, 5>> >>
    /\ BatchLabels = <<0, 0, 1, 1>>

\* C1: with the labels an N x 1 column, deephashloss returns N values and
\* the value at i is one half of the sum over every j (j = i included) of
\* D[i][j] for equal labels and max(34 - D[i][j], 0) for different labels.
C1_PerSampleLoss ==
    (LossDone /\ y_true.rank = 2 /\ NLabels = NPred) =>
        /\ loss.status = "ok"
        /\ Len(loss.value) = NPred
        /\ \A i \in 1..NPred :
              /\ loss.value[i].den > 0
              /\ 2 * loss.value[i].num =
                    loss.value[i].den * SumSeq([j \in 1..NPred |-> Term(i, j)])

C1_Witness ==
    /\ LossDone /\ y_true.rank = 2 /\ NLabels = NPred /\ NPred = 3
    /\ \E i, j, l \in 1..3 :
          /\ i # j /\ BatchLabels[i] = BatchLabels[j] /\ SqDist(i, j) > 0
          /\ BatchLabels[i] # BatchLabels[l]
          /\ SqDist(i, l) > 0 /\ SqDist(i, l) < 34
          /\ loss.value[i].num = SqDist(i, j) + 34 - SqDist(i, l)

\* C2: for N labels and N predictions the result has exactly N elements and
\* every element is >= 0.
C2_LengthAndSign ==
    (LossDone /\ NLabels = NPred) =>
        /\ loss.status = "ok"
        /\ Len(loss.value) = NPred
        /\ \A i \in 1..NPred : loss.value[i].den > 0 /\ loss.value[i].num >= 0

C2_Witness ==
    /\ LossDone /\ NLabels = NPred /\ NPred >= 2
    /\ Len(loss.value) = NPred
    /\ \E i, j \in 1..NPred : BatchLabels[i] # BatchLabels[j] /\ SqDist(i, j) >= 34
    /\ \E i \in 1..NPred : loss.value[i].num > 0

\* C3: a pair with different labels and D[i][j] >= 34 contributes exactly 0
\* to the loss of i; for labels [0,0,1,1] and predictions
\* [[0,0],[0,0],[5,5],[5,5]] the loss at index 0 is 0.
C3_MarginClipping ==
    (LossDone /\ NLabels = NPred) =>
        /\ LET C == Contributions
           IN  \A i, j \in 1..NPred :
                  (BatchLabels[i] # BatchLabels[j] /\ SqDist(i, j) >= 34)
                      => C[i][j] = 0
        /\ IsScenario1 => (loss.status = "ok" /\ loss.value[1].num = 0)

\* C4: the similarity entry of every self-pair is 1 and the self-pair adds
\* D[i][i] = 0 to the loss of i, never the margin term; a batch of one
\* sample has loss 0.
C4_SelfPair ==
    (LossDone /\ NLabels = NPred) =>
        /\ LET S == Similarity(y_true)
               C == Contributions
           IN  \A i \in 1..NPred :
                  /\ BroadcastAt(S, i, i) = 1
                  /\ SqDist(i, i) = 0
                  /\ C[i][i] = 0
        /\ NPred = 1 => loss.value[1].num = 0

C4_Witness ==
    /\ LossDone /\ NLabels = 1 /\ NPred = 1
    /\ loss.status = "ok"
    /\ loss.value = <<Rat(0, 2)>>

\* C6: whenever the number of labels differs from the number of prediction
\* vectors the call fails; it never returns a loss vector.
C6_ShapeMismatchFails ==
    (LossDone /\ NLabels # NPred) => loss.status # "ok"

(***************************************************************************)
(* Properties of the evaluation.                                           *)
(***************************************************************************)
HasMedians == cell \in {"medians", "distances", "reported"}

HasTable == cell \in {"distances", "reported"}

\* The samples of label n.
GroupIdx(n) == {s \in 1..Len(y_test) : y_test[s] = n}

\* How many samples of label n have 1 at position k (after binarization).
Ones(n, k) == Cardinality({s \in GroupIdx(n) : y_test_fit[s][k] = 1})

Size(n) == Cardinality(GroupIdx(n))

Width == Len(y_test_fit[1])

IsVal(x, n, d) == x.den > 0 /\ x.num * d = n * x.den

IsHalf(x) == IsVal(x, 1, 2)

IsBit(x) == IsVal(x, 0, 1) \/ IsVal(x, 1, 1)

\* The positions at which the representatives of labels i and j differ.
DiffCount(i, j) ==
    Cardinality({k \in 1..Width :
        LET a == median_hash[i + 1][k]
            b == median_hash[j + 1][k]
        IN  a.den = 0 \/ b.den = 0 \/ a.num * b.den # b.num * a.den})

\* C5: a label with no sample makes the evaluation fail: no representative
\* is produced and no distance is recorded.
C5_EmptyClassFails ==
    \A n \in Labels :
        GroupIdx(n) = {} => (median_hash = Unset /\ hash_distance = Unset)

\* The float64 x is an integer: it is the float64 nearest to its fraction,
\* and that fraction is whole.
IsInteger(x) == x.den > 0 /\ x.steps = 0 /\ x.num % x.den = 0

\* C7: when every label has a sample, every stored distance is an integer
\* in [0, B], B the hash length.
C7_IntegerRange ==
    (HasTable /\ \A n \in Labels : GroupIdx(n) # {}) =>
        \A p \in 1..Len(hash_distance) :
            /\ IsInteger(hash_distance[p].val)
            /\ hash_distance[p].val.num >= 0
            /\ hash_distance[p].val.num <= Width * hash_distance[p].val.den

C7_Witness ==
    /\ HasTable
    /\ \A n \in Labels : GroupIdx(n) # {}
    /\ Width = HashLen
    /\ \E n \in Labels : Size(n) = 2 /\ \E k \in 1..Width : IsHalf(median_hash[n + 1][k])
    /\ \E p \in 1..Len(hash_distance) :
          /\ IsInteger(hash_distance[p].val)
          /\ hash_distance[p].val.num > 0
          /\ hash_distance[p].val.num < Width
    /\ \E p \in 1..Len(hash_distance) : hash_distance[p].val = Float(0, 1, 0)

\* Lexicographic order of keys.
LexLe(a, b) == a[1] < b[1] \/ (a[1] = b[1] /\ a[2] <= b[2])

\* C8: after the loop the table has one entry per pair i < j of labels
\* (45 entries, strictly increasing in lexicographic order, hence each pair
\* once), no key (a,a), and the value of (i,j) is the number of differing
\* positions, the same when computed for (j,i).
C8_TableKeys ==
    HasTable =>
        /\ Len(hash_distance) = 45
        /\ 2 * Len(hash_distance) = NumLabels * (NumLabels - 1)
        /\ \A p \in 1..Len(hash_distance) :
              LET i == hash_distance[p].key[1]
                  j == hash_distance[p].key[2]
              IN  /\ i \in Labels /\ j \in Labels /\ i < j
                  /\ hash_distance[p].val = Float(DiffCount(i, j), 1, 0)
                  /\ hash_distance[p].val = Distance(median_hash, j, i)
        /\ \A p \in 1..(Len(hash_distance) - 1) :
              /\ hash_distance[p].key # hash_distance[p + 1].key
              /\ LexLe(hash_distance[p].key, hash_distance[p + 1].key)

C8_Witness ==
    /\ cell = "distances"
    /\ Len(hash_distance) = 45
    /\ hash_distance[1].key = <<0, 1>>
    /\ hash_distance[45].key = <<8, 9>>
    /\ \E p, q, r \in 1..45 : /\ hash_distance[p].val = Float(0, 1, 0)
                              /\ hash_distance[q].val = Float(1, 1, 0)
                              /\ hash_distance[r].val = Float(2, 1, 0)

\* C9: the representative of a label with samples is the per-position
\* median: 1 when more than half of the group has 1, 0 when more than half
\* has 0, 0.5 on an even split, with no rounding; it is binary for an odd
\* group, the vector itself for a single sample; a 0.5 entry counts as a
\* difference against 0 and against 1 in the distance.
C9_MedianRule ==
    /\ HasMedians =>
          \A n \in Labels : GroupIdx(n) # {} =>
              \A k \in 1..Width :
                  LET size == Size(n)
                      ones == Ones(n, k)
                      med == median_hash[n + 1][k]
                  IN  /\ 2 * ones > size => IsVal(med, 1, 1)
                      /\ 2 * ones < size => IsVal(med, 0, 1)
                      /\ 2 * ones = size => IsHalf(med)
                      /\ size % 2 = 1 => IsBit(med)
                      /\ size = 1 =>
                            \A s \in GroupIdx(n) : IsVal(med, y_test_fit[s][k], 1)
    /\ HasTable =>
          \A p \in 1..Len(hash_distance) :
              LET a == median_hash[hash_distance[p].key[1] + 1]
                  b == median_hash[hash_distance[p].key[2] + 1]
              IN  ~FloatLt(hash_distance[p].val,
                           Float(Cardinality({k \in 1..Width :
                                     \/ IsHalf(a[k]) /\ IsBit(b[k])
                                     \/ IsBit(a[k]) /\ IsHalf(b[k])}), 1, 0))

C9_Witness ==
    /\ cell = "reported"
    /\ \E n, j \in Labels :
          /\ Size(n) = 2 /\ Size(j) = 1
          /\ IsHalf(median_hash[n + 1][1]) /\ IsBit(median_hash[n + 1][HashLen])
          /\ IsBit(median_hash[j + 1][1])
          /\ \E p \in 1..Len(hash_distance) :
                /\ hash_distance[p].key \in {<<n, j>>, <<j, n>>}
                /\ FloatLt(Float(0, 1, 0), hash_distance[p].val)

\* C10: the farthest pair reported is a key whose value is >= every value,
\* the closest pair a key whose value is <= every value, each printed
\* distance is that pair's own value, and among tied pairs the first in
\* insertion order, the lexicographically smallest, is reported.
C10_Report ==
    cell = "reported" =>
        /\ \E p \in 1..Len(hash_distance) : hash_distance[p].key = report.maxKey
        /\ \E p \in 1..Len(hash_distance) : hash_distance[p].key = report.minKey
        /\ LET far == CHOOSE p \in 1..Len(hash_distance) :
                          hash_distance[p].key = report.maxKey
               near == CHOOSE p \in 1..Len(hash_distance) :
                          hash_distance[p].key = report.minKey
           IN  /\ hash_distance[far].val = report.maxVal
               /\ hash_distance[near].val = report.minVal
               /\ \A q \in 1..Len(hash_distance) :
                     /\ ~FloatLt(hash_distance[far].val, hash_distance[q].val)
                     /\ ~FloatLt(hash_distance[q].val, hash_distance[near].val)
                     /\ hash_distance[q].val = hash_distance[far].val =>
                           (far <= q /\ LexLe(report.maxKey, hash_distance[q].key))
                     /\ hash_distance[q].val = hash_distance[near].val =>
                           (near <= q /\ LexLe(report.minKey, hash_distance[q].key))

C10_Witness ==
    /\ cell = "reported"
    /\ report.maxKey = <<0, 3>>
    /\ report.minKey = <<0, 4>>
    /\ report.maxVal = Float(3, 1, 0)
    /\ report.minVal = Float(0, 1, 0)
    /\ \E p \in 1..Len(hash_distance) : hash_distance[p].val = Float(1, 1, 0)
    /\ Cardinality({p \in 1..Len(hash_distance) :
                       hash_distance[p].val = report.maxVal}) > 1
    /\ Cardinality({p \in 1..Len(hash_distance) :
                       hash_distance[p].val = report.minVal}) > 1

====
